---- MODULE Spec2Model ----
(***************************************************************************)
(* Model of the canada_sin crate (src/src/lib.rs): SIN::parse, SIN::types, *)
(* the SIN accessors and renderings, and the SINType facet queries.        *)
(*                                                                         *)
(* A String is a sequence of Unicode scalar values (code points); a digit  *)
(* is a u8.  The caller composes an input string, calls SIN::parse on it   *)
(* and, when it got a SIN, calls the accessors on that SIN.                *)
(***************************************************************************)
EXTENDS Integers, Sequences, FiniteSets

\* ------------------------------------------------------------------------
\* Bounds of the model
\* ------------------------------------------------------------------------

\* How many single-character edits the caller makes to a literal input.
MaxEdits == 1

\* ------------------------------------------------------------------------
\* Characters and strings
\* ------------------------------------------------------------------------

\* The characters '0'..'9'.
DigitChars == 48..57

\* Some characters that are not decimal digits: '-', '/', ':', 'a'.
\* '/' and ':' are the neighbours of '0' and '9'.
OtherChars == {45, 47, 58, 97}

\* The string literal made of the decimal digits ds, e.g. "046454286".
Lit(ds) == [i \in 1..Len(ds) |-> 48 + ds[i]]

\* The string literal "abc-def-ghi" of nine digits.
LitDashed(ds) ==
    Lit(SubSeq(ds, 1, 3)) \o <<45>> \o Lit(SubSeq(ds, 4, 6)) \o <<45>> \o Lit(SubSeq(ds, 7, 9))

\* The input literals of the crate's tests and doc examples.
TestInputs ==
    { Lit(<<1,2,3,4,5,6,7,8,9>>), Lit(<<4,2,5,4,5,3,4,5,7>>),
      Lit(<<7,5,9,2,6,8,6,7,6>>), Lit(<<6,3,5,5,6,3,4,5,3>>),
      Lit(<<9,9,9,9,9,9,9,9,9>>), Lit(<<0,4,6,4,5,4,2,8,6>>),
      Lit(<<0,0,0,0,0,0,0,0,0>>),
      Lit(<<1,2,3,4,5,6,7,8>>), Lit(<<1,2,3>>), Lit(<<0>>), Lit(<<>>),
      Lit(<<0,0,0,0,0,0,0,0,0,0>>), Lit(<<4,3,2,4,2,3,4,2,3,7>>),
      Lit(<<6,3,5,4,6,2,4,5,2,4,5,2,3,4,4,3,4,3>>),
      LitDashed(<<0,0,0,0,0,0,0,0,0>>), Lit(<<9,9,9,9,9,9,9,9,8>>),
      Lit(<<3,4,6,4,5,4,3,8,2>>), Lit(<<7,3,4,3,2,3,8,4,3>>) }

\* Two more inputs, for the leading digits no literal of the crate leads to:
\* "246454284", "546-454-281".
MoreInputs == {Lit(<<2,4,6,4,5,4,2,8,4>>), LitDashed(<<5,4,6,4,5,4,2,8,1>>)}

\* ------------------------------------------------------------------------
\* Values
\* ------------------------------------------------------------------------

None == [tag |-> "None"]

\* No call was made on the SIN yet.
NoCall == [op |-> "none"]

Ok(digits) == [tag |-> "Ok", inner_digits |-> digits]

Err(e) == [tag |-> "Err", err |-> e]

\* A panic: unreachable!(), or an arithmetic overflow in a build that checks it.
Panic(why) == [tag |-> "Panic", why |-> why]

SINParseError == {"TooLong", "TooShort", "InvalidChecksum"}

SINType ==
    { "CRAAssigned", "TemporaryResident", "BusinessNumber", "OverseasForces",
      "Alberta", "BritishColumbia", "Manitoba", "NewBrunswick",
      "NewfoundlandLabrador", "NorthwestTerritories", "NovaScotia", "Nunavut",
      "Ontario", "PrinceEdwardIsland", "Quebec", "Saskatchewan", "Yukon" }

\* Overflow checks are on in a debug build and off in a release build.
Builds == {"debug", "release"}

\* ------------------------------------------------------------------------
\* SINType facets
\* ------------------------------------------------------------------------

\* is_province with the three territories left out.
is_province_ProvincesOnly(self) ==
    self \in { "Alberta", "BritishColumbia", "Manitoba", "NewBrunswick",
               "NewfoundlandLabrador", "NovaScotia", "Ontario",
               "PrinceEdwardIsland", "Quebec", "Saskatchewan" }

is_province(self) ==
    self \in { "Alberta", "BritishColumbia", "Manitoba", "NewBrunswick",
               "NewfoundlandLabrador", "NorthwestTerritories", "NovaScotia",
               "Nunavut", "Ontario", "PrinceEdwardIsland", "Quebec",
               "Saskatchewan", "Yukon" }

is_human(self) == self # "BusinessNumber"

\* ------------------------------------------------------------------------
\* SIN::parse
\* ------------------------------------------------------------------------

\* to_digit called with radix 16: 'a'..'f' are digits too.
to_digit_Hex(khar, radix) ==
    IF khar >= 48 /\ khar - 48 < 10 THEN khar - 48
    ELSE IF khar >= 97 /\ khar - 97 < 6 THEN khar - 97 + 10
    ELSE -1

\* char::to_digit(radix) for radix <= 10: the distance from '0', when below radix.
to_digit(khar, radix) ==
    IF khar >= 48 /\ khar - 48 < radix THEN khar - 48 ELSE -1

\* The loop with digits.insert(0, ..) for digits.push(..).
RECURSIVE CollectDigits_Prepend(_, _)
CollectDigits_Prepend(s, digits) ==
    IF s = <<>> THEN digits
    ELSE IF to_digit(Head(s), 10) # -1
         THEN CollectDigits_Prepend(Tail(s), <<to_digit(Head(s), 10) % 256>> \o digits)
         ELSE CollectDigits_Prepend(Tail(s), digits)

\* The loop over s.chars(): every character to_digit accepts pushes its digit,
\* cast to u8; digits is the vector built so far.
RECURSIVE CollectDigits(_, _)
CollectDigits(s, digits) ==
    IF s = <<>> THEN digits
    ELSE IF to_digit(Head(s), 10) # -1
         THEN CollectDigits(Tail(s), Append(digits, to_digit(Head(s), 10) % 256))
         ELSE CollectDigits(Tail(s), digits)

\* The weights of the usual Luhn parity: the even indices doubled.
Weight_Swapped(idx) == IF idx % 2 = 0 THEN 2 ELSE 1

\* The weight of the digit at 0-based index idx.
Weight(idx) == IF idx % 2 = 0 THEN 1 ELSE 2

\* The first closure of the checksum: digit * weight.
Weighted(digits, idx) == digits[idx + 1] * Weight(idx)

\* The second closure without the reduction.
Reduce_None(val) == val

\* The second closure without the carry.
Reduce_NoCarry(val) == IF val > 9 THEN val % 10 ELSE val

\* The second closure of the checksum.
Reduce(val) == IF val > 9 THEN (val % 10) + 1 ELSE val

\* The mapped value of index idx, in u8 arithmetic.
Mapped(digits, idx) == Reduce(Weighted(digits, idx) % 256)

\* The unbounded sum of the first n mapped values.
RECURSIVE PartialSum(_, _)
PartialSum(digits, n) ==
    IF n = 0 THEN 0 ELSE PartialSum(digits, n - 1) + Mapped(digits, n - 1)

\* Whether some u8 operation of the checksum leaves 0..255: a product, or the
\* running sum (it never decreases, so the last partial sum is the largest).
Overflows(digits) ==
    \/ \E idx \in 0..(Len(digits) - 1) : Weighted(digits, idx) > 255
    \/ PartialSum(digits, Len(digits)) > 255

\* luhn_sum: u8.
LuhnSum(digits) == PartialSum(digits, Len(digits)) % 256

\* SIN::parse with n <= 9 for n < 9 in the first arm.
parse_TooShortAt9(s, build) ==
    LET digits == CollectDigits(s, <<>>)
    IN  IF Len(digits) <= 9 THEN Err("TooShort")
        ELSE IF Len(digits) > 9 THEN Err("TooLong")
        ELSE Panic("unreachable")

\* SIN::parse(s) in the given build.
parse(s, build) ==
    LET digits == CollectDigits(s, <<>>)
    IN  IF Len(digits) < 9 THEN Err("TooShort")
        ELSE IF Len(digits) > 9 THEN Err("TooLong")
        ELSE IF Len(digits) = 9
             THEN IF Overflows(digits) /\ build = "debug" THEN Panic("overflow")
                  ELSE IF LuhnSum(digits) % 10 # 0 THEN Err("InvalidChecksum")
                  ELSE IF Len(digits) = 9 THEN Ok(digits)
                  ELSE Panic("unreachable")
             ELSE Panic("unreachable")

\* ------------------------------------------------------------------------
\* SIN accessors
\* ------------------------------------------------------------------------

\* types() looking at inner_digits[1].
types_SecondDigit(self) ==
    LET d == self.inner_digits[2]
    IN  IF d = 0 THEN <<"CRAAssigned">>
        ELSE IF d = 1 THEN <<"NovaScotia", "NewBrunswick", "PrinceEdwardIsland",
                             "NewfoundlandLabrador">>
        ELSE IF d \in {2, 3} THEN <<"Quebec">>
        ELSE IF d \in {4, 5} THEN <<"Ontario", "OverseasForces">>
        ELSE IF d = 6 THEN <<"Ontario", "Manitoba", "Saskatchewan", "Alberta",
                             "NorthwestTerritories", "Nunavut">>
        ELSE IF d = 7 THEN <<"BritishColumbia", "Yukon", "BusinessNumber">>
        ELSE IF d = 8 THEN <<"BusinessNumber">>
        ELSE IF d = 9 THEN <<"TemporaryResident">>
        ELSE Panic("unreachable")

types(self) ==
    LET d == self.inner_digits[1]
    IN  IF d = 0 THEN <<"CRAAssigned">>
        ELSE IF d = 1 THEN <<"NovaScotia", "NewBrunswick", "PrinceEdwardIsland",
                             "NewfoundlandLabrador">>
        ELSE IF d \in {2, 3} THEN <<"Quebec">>
        ELSE IF d \in {4, 5} THEN <<"Ontario", "OverseasForces">>
        ELSE IF d = 6 THEN <<"Ontario", "Manitoba", "Saskatchewan", "Alberta",
                             "NorthwestTerritories", "Nunavut">>
        ELSE IF d = 7 THEN <<"BritishColumbia", "Yukon", "BusinessNumber">>
        ELSE IF d = 8 THEN <<"BusinessNumber">>
        ELSE IF d = 9 THEN <<"TemporaryResident">>
        ELSE Panic("unreachable")

digits(self) == self.inner_digits

\* to_string as format!("{:02}", d).
to_string_Padded(d) ==
    IF d < 10 THEN <<48, 48 + d>> ELSE <<48 + ((d \div 10) % 10), 48 + (d % 10)>>

\* u8::to_string(): the decimal representation, most significant digit first.
RECURSIVE to_string(_)
to_string(d) ==
    IF d < 10 THEN <<48 + d>> ELSE to_string(d \div 10) \o <<48 + (d % 10)>>

RECURSIVE gen_sin_string_part(_)
gen_sin_string_part(part) ==
    IF part = <<>> THEN <<>>
    ELSE to_string(Head(part)) \o gen_sin_string_part(Tail(part))

digits_string(self) == gen_sin_string_part(self.inner_digits)

\* digits_dashed_string with the last slice [6..8].
digits_dashed_string_ShortSlice(self) ==
    gen_sin_string_part(SubSeq(self.inner_digits, 1, 3)) \o <<45>>
    \o gen_sin_string_part(SubSeq(self.inner_digits, 4, 6)) \o <<45>>
    \o gen_sin_string_part(SubSeq(self.inner_digits, 7, 8))

digits_dashed_string(self) ==
    gen_sin_string_part(SubSeq(self.inner_digits, 1, 3)) \o <<45>>
    \o gen_sin_string_part(SubSeq(self.inner_digits, 4, 6)) \o <<45>>
    \o gen_sin_string_part(SubSeq(self.inner_digits, 7, 9))

\* Display::fmt writes digits_dashed_string().
fmt(self) == digits_dashed_string(self)

\* ------------------------------------------------------------------------
\* The state
\* ------------------------------------------------------------------------

VARIABLES
    s,          \* the input string the caller holds
    edits,      \* how many edits the caller made to it
    result,     \* what SIN::parse(s) returned, None before the call
    out         \* the last call on the SIN (or on one of its tags) and what it returned

vars == <<s, edits, result, out>>

Init ==
    /\ s \in TestInputs \cup MoreInputs
    /\ edits = 0
    /\ result = None
    /\ out = NoCall

\* ------------------------------------------------------------------------
\* The caller composes the input
\* ------------------------------------------------------------------------

\* One digit of the input becomes another digit.
ReplaceDigit ==
    /\ result = None
    /\ edits < MaxEdits
    /\ \E i \in 1..Len(s), c \in DigitChars :
          /\ s[i] \in DigitChars
          /\ c # s[i]
          /\ s' = [s EXCEPT ![i] = c]
    /\ edits' = edits + 1
    /\ UNCHANGED <<result, out>>

\* A character that is not a digit is inserted somewhere.
InsertSeparator ==
    /\ result = None
    /\ edits < MaxEdits
    /\ \E i \in 0..Len(s), c \in OtherChars :
          s' = SubSeq(s, 1, i) \o <<c>> \o SubSeq(s, i + 1, Len(s))
    /\ edits' = edits + 1
    /\ UNCHANGED <<result, out>>

\* One character of the input is dropped.
RemoveChar ==
    /\ result = None
    /\ edits < MaxEdits
    /\ \E i \in 1..Len(s) :
          s' = SubSeq(s, 1, i - 1) \o SubSeq(s, i + 1, Len(s))
    /\ edits' = edits + 1
    /\ UNCHANGED <<result, out>>

\* ------------------------------------------------------------------------
\* The calls
\* ------------------------------------------------------------------------

Parse ==
    /\ result = None
    /\ \E build \in Builds : result' = parse(s, build)
    /\ UNCHANGED <<s, edits, out>>

Types ==
    /\ result.tag = "Ok"
    /\ out' = [op |-> "types", val |-> types(result)]
    /\ UNCHANGED <<s, edits, result>>

Digits ==
    /\ result.tag = "Ok"
    /\ out' = [op |-> "digits", val |-> digits(result)]
    /\ UNCHANGED <<s, edits, result>>

DigitsString ==
    /\ result.tag = "Ok"
    /\ out' = [op |-> "digits_string", val |-> digits_string(result)]
    /\ UNCHANGED <<s, edits, result>>

DigitsDashedString ==
    /\ result.tag = "Ok"
    /\ out' = [op |-> "digits_dashed_string", val |-> digits_dashed_string(result)]
    /\ UNCHANGED <<s, edits, result>>

Display ==
    /\ result.tag = "Ok"
    /\ out' = [op |-> "fmt", val |-> fmt(result)]
    /\ UNCHANGED <<s, edits, result>>

\* The caller parses the contiguous rendering it got from digits_string().
Reparse ==
    /\ result.tag = "Ok"
    /\ out.op = "digits_string"
    /\ \E build \in Builds : out' = [op |-> "parse", val |-> parse(out.val, build)]
    /\ UNCHANGED <<s, edits, result>>

\* The caller queries the facets of one of the tags types() returned.
Facets ==
    /\ result.tag = "Ok"
    /\ out.op = "types"
    /\ \E i \in 1..Len(out.val) :
          out' = [op |-> "facets", val |-> out.val[i],
                  is_province |-> is_province(out.val[i]),
                  is_human |-> is_human(out.val[i])]
    /\ UNCHANGED <<s, edits, result>>

Next ==
    \/ ReplaceDigit
    \/ InsertSeparator
    \/ RemoveChar
    \/ Parse
    \/ Types
    \/ Digits
    \/ DigitsString
    \/ DigitsDashedString
    \/ Display
    \/ Reparse
    \/ Facets

Spec == Init /\ [][Next]_vars

\* ------------------------------------------------------------------------
\* Substitution of digits alone: the caller starts from nine digits, replaces
\* digits and parses
\* ------------------------------------------------------------------------

SubstInputs == {Lit(<<0,4,6,4,5,4,2,8,6>>), Lit(<<1,2,3,4,5,6,7,8,9>>)}

InitSubst ==
    /\ s \in SubstInputs
    /\ edits = 0
    /\ result = None
    /\ out = NoCall

NextSubst ==
    \/ ReplaceDigit
    \/ Parse

SpecSubst == InitSubst /\ [][NextSubst]_vars

\* ------------------------------------------------------------------------
\* The vocabulary of the claims, defined without the definitions above
\* ------------------------------------------------------------------------

\* Whether c is one of the characters '0'..'9'.
IsDigitChar(c) == c \in 48..57

\* n: how many decimal digit characters the string has.
DigitCount(str) == Cardinality({i \in 1..Len(str) : IsDigitChar(str[i])})

\* The values of the digit characters of the string, in their order.
DigitValues(str) ==
    LET kept == SelectSeq(str, IsDigitChar)
    IN  [i \in 1..Len(kept) |-> kept[i] - 48]

\* r(w): the sum of the decimal digits of w.
RECURSIVE DecimalDigitSum(_)
DecimalDigitSum(w) == IF w < 10 THEN w ELSE (w % 10) + DecimalDigitSum(w \div 10)

\* w[i] of the claims, i counted from 0.
ClaimWeighted(d, i) == IF i % 2 = 0 THEN d[i + 1] ELSE 2 * d[i + 1]

RECURSIVE ClaimSumUpTo(_, _)
ClaimSumUpTo(d, n) ==
    IF n = 0 THEN 0
    ELSE ClaimSumUpTo(d, n - 1) + DecimalDigitSum(ClaimWeighted(d, n - 1))

\* The sum over i of r(w[i]) is divisible by 10.
ClaimChecksumPasses(d) == ClaimSumUpTo(d, Len(d)) % 10 = 0

\* The table of section 4.3, by leading digit.
ClaimTable(d0) ==
    CASE d0 = 0 -> <<"CRAAssigned">>
      [] d0 = 1 -> <<"NovaScotia", "NewBrunswick", "PrinceEdwardIsland",
                     "NewfoundlandLabrador">>
      [] d0 \in {2, 3} -> <<"Quebec">>
      [] d0 \in {4, 5} -> <<"Ontario", "OverseasForces">>
      [] d0 = 6 -> <<"Ontario", "Manitoba", "Saskatchewan", "Alberta",
                     "NorthwestTerritories", "Nunavut">>
      [] d0 = 7 -> <<"BritishColumbia", "Yukon", "BusinessNumber">>
      [] d0 = 8 -> <<"BusinessNumber">>
      [] d0 = 9 -> <<"TemporaryResident">>

\* The tags that are no province or territory.
NonGeographicTags ==
    {"CRAAssigned", "TemporaryResident", "BusinessNumber", "OverseasForces"}

\* Every call of SIN::parse the state records: its input and what it returned.
ParseCalls ==
    (IF result # None THEN {[input |-> s, output |-> result]} ELSE {})
    \cup (IF out.op = "parse"
          THEN {[input |-> digits_string(result), output |-> out.val]} ELSE {})

\* ------------------------------------------------------------------------
\* The claims
\* ------------------------------------------------------------------------

\* C1: with n the number of digit characters of the input, parse returns
\* Err(TooShort) exactly when n < 9, Err(TooLong) exactly when n > 9, and Ok
\* or Err(InvalidChecksum) when n = 9; it never takes an unreachable branch.
C1_Outcome ==
    \A call \in ParseCalls :
        LET n == DigitCount(call.input)
            r == call.output
        IN  /\ r.tag \in {"Ok", "Err"}
            /\ r.tag = "Err" => r.err \in SINParseError
            /\ (r = Err("TooShort")) <=> (n < 9)
            /\ (r = Err("TooLong")) <=> (n > 9)
            /\ (n = 9) => (r.tag = "Ok" \/ r = Err("InvalidChecksum"))

\* An input of more than 8 characters with 8 digits was parsed.
C1_Witness ==
    /\ result = Err("TooShort")
    /\ DigitCount(s) = 8
    /\ Len(s) > 8

\* C2: nine digits are accepted exactly when the sum of the decimal digit sums
\* of the weighted values is divisible by 10, and are rejected with
\* InvalidChecksum otherwise; the code's reduction equals the decimal digit sum
\* on every weighted value.
C2_Checksum ==
    \A call \in ParseCalls :
        LET d == DigitValues(call.input)
        IN  Len(d) = 9 =>
              /\ (call.output.tag = "Ok") <=> ClaimChecksumPasses(d)
              /\ ~ClaimChecksumPasses(d) => call.output = Err("InvalidChecksum")
              /\ \A i \in 0..8 :
                    Mapped(d, i) = DecimalDigitSum(ClaimWeighted(d, i))

\* Nine digits with a doubled digit above 4 were accepted.
C2_Witness ==
    /\ result.tag = "Ok"
    /\ \E i \in {1, 3, 5, 7} : DigitValues(s)[i + 1] > 4
    /\ edits > 0

\* C3: a SIN that parse returns holds exactly 9 digits in 0..9, the digit
\* characters of the input in their order and with their values, and they pass
\* the checksum; digits() returns them.
C3_ValidSIN ==
    /\ \A call \in ParseCalls :
          call.output.tag = "Ok" =>
            /\ Len(call.output.inner_digits) = 9
            /\ \A i \in 1..9 : call.output.inner_digits[i] \in 0..9
            /\ call.output.inner_digits = DigitValues(call.input)
            /\ ClaimChecksumPasses(call.output.inner_digits)
    /\ out.op = "digits" => out.val = DigitValues(s)

\* digits() was called on a SIN parsed from an input that is no palindrome
\* and has other characters than digits.
C3_Witness ==
    /\ out.op = "digits"
    /\ Len(s) > 9
    /\ \E i \in 1..9 : out.val[i] # out.val[10 - i]

\* C4: parsing digits_string() of a parsed SIN succeeds with an equal SIN.
C4_RoundTrip ==
    out.op = "parse" => (out.val.tag = "Ok" /\ out.val = result)

\* The rendering of a SIN whose input had a separator was parsed again.
C4_Witness ==
    /\ out.op = "parse"
    /\ result.tag = "Ok"
    /\ Len(s) > 9

\* C5: the result of parse depends only on the digit characters of the input:
\* it is the result for the input without its other characters.
C5_SeparatorTolerance ==
    \A call \in ParseCalls :
        \A build \in Builds :
            parse(Lit(DigitValues(call.input)), build) = call.output

\* An input with a letter in it was parsed into a SIN.
C5_Witness ==
    /\ result.tag = "Ok"
    /\ \E i \in 1..Len(s) : s[i] = 97

\* C6: types() is the table's list for the leading digit: never empty, never a
\* failure.
C6_Types ==
    out.op = "types" =>
        /\ result.inner_digits[1] \in 0..9
        /\ out.val = ClaimTable(result.inner_digits[1])
        /\ Len(out.val) > 0

\* types() was called on a SIN whose leading digit is 6 and whose second is not.
C6_Witness ==
    /\ out.op = "types"
    /\ result.inner_digits[1] = 6
    /\ result.inner_digits[2] # 6
    /\ Len(out.val) = 6

\* C7: on nine digits the checksum stays in the range of a u8: every weighted
\* value is at most 18, the sum at most 81; "999999999" is rejected with
\* InvalidChecksum.
C7_NoOverflow ==
    \A call \in ParseCalls :
        LET d == CollectDigits(call.input, <<>>)
        IN  Len(d) = 9 =>
              /\ call.output.tag # "Panic"
              /\ ~Overflows(d)
              /\ \A i \in 0..8 : Weighted(d, i) <= 18
              /\ \A n \in 0..9 : PartialSum(d, n) <= 81
              /\ LuhnSum(d) = PartialSum(d, 9)
              /\ call.input = Lit(<<9,9,9,9,9,9,9,9,9>>)
                    => call.output = Err("InvalidChecksum")

\* "999999999" was parsed: its sum is 81.
C7_Witness ==
    /\ result # None
    /\ s = Lit(<<9,9,9,9,9,9,9,9,9>>)
    /\ PartialSum(CollectDigits(s, <<>>), 9) = 81

\* C8 as stated: exactly ten tags are provinces or territories.
C8_TenTags ==
    out.op = "facets" =>
        /\ out.is_province <=> out.val \notin NonGeographicTags
        /\ Cardinality({t \in SINType : is_province(t)}) = 10

\* C8, amended: is_province is true of the thirteen province and territory
\* tags, exactly thirteen of the seventeen, and false of CRAAssigned,
\* TemporaryResident, BusinessNumber and OverseasForces.
C8_ThirteenTags ==
    out.op = "facets" =>
        /\ out.val \in SINType
        /\ out.is_province <=> out.val \notin NonGeographicTags
        /\ \A t \in SINType : is_province(t) <=> t \notin NonGeographicTags
        /\ Cardinality({t \in SINType : is_province(t)}) = 13
        /\ Cardinality(SINType) = 17

\* The facets of a territory were queried.
C8_Witness ==
    /\ out.op = "facets"
    /\ out.val = "Yukon"
    /\ out.is_province

\* C9: digits_string() is the 9 digit characters, digits_dashed_string() and
\* Display the 11 characters ddd-ddd-ddd; without the dashes they are equal.
C9_Renderings ==
    LET d == result.inner_digits
    IN  /\ out.op = "digits_string" =>
              /\ Len(out.val) = 9
              /\ \A i \in 1..9 : out.val[i] = 48 + d[i]
        /\ out.op \in {"digits_dashed_string", "fmt"} =>
              /\ Len(out.val) = 11
              /\ out.val[4] = 45 /\ out.val[8] = 45
              /\ \A i \in 1..3 : /\ out.val[i] = 48 + d[i]
                                 /\ out.val[i + 4] = 48 + d[i + 3]
                                 /\ out.val[i + 8] = 48 + d[i + 6]
              /\ SelectSeq(out.val, LAMBDA c : c # 45) = digits_string(result)

\* The dashed rendering of a SIN with different last digits was made.
C9_Witness ==
    /\ out.op = "digits_dashed_string"
    /\ out.val[10] # out.val[11]
    /\ edits > 0

\* C10: replacing one digit of an accepted sequence by another gives a
\* sequence parse rejects with InvalidChecksum; for any nine digits and any
\* position, exactly one value at that position is accepted.
C10_SingleSubstitution ==
    result # None /\ out = NoCall =>
      \A build \in Builds, d \in {DigitValues(s)} :
            s = Lit(d) /\ Len(d) = 9 =>
              \A i \in 1..9 :
                \A r \in {[v \in 0..9 |-> parse(Lit([d EXCEPT ![i] = v]), build)]} :
                    /\ Cardinality({v \in 0..9 : r[v].tag = "Ok"}) = 1
                    /\ \A v \in 0..9 :
                          r[v].tag = "Ok" \/ r[v] = Err("InvalidChecksum")
                    /\ result.tag = "Ok" =>
                          \A v \in (0..9) \ {d[i]} : r[v] = Err("InvalidChecksum")

\* Nine digits made by a substitution, with a 0 or a 5 at a doubled position,
\* were accepted.
C10_Witness ==
    /\ result.tag = "Ok"
    /\ out = NoCall
    /\ s \notin SubstInputs
    /\ \E i \in {2, 4, 6, 8} : DigitValues(s)[i] \in {0, 5}

====
